---- MODULE Spec2Model ----
(***************************************************************************)
(* DMA channel handles and the shared DMA register bank of lpc8xx-hal      *)
(* (src/dma/channels.rs).                                                  *)
(*                                                                         *)
(* A Channel<C, S> carries a type-level state S (Disabled / Enabled); the  *)
(* methods of an impl block for one state are modelled as actions guarded  *)
(* by that state.  SharedRegisters<C> is built by new() from the fixed     *)
(* register block and needs no handle, so its methods carry no guard.      *)
(* A register is modelled by the number it holds; bit n belongs to         *)
(* channel n, and only channel bits are ever written.                      *)
(*                                                                         *)
(* The module also covers the CTIMER handle with the registers its         *)
(* enable() writes (src/ctimer.rs) and the constructor of the I2C clock    *)
(* configuration (src/i2c/clock.rs); each has specifications of its own.   *)
(***************************************************************************)
EXTENDS Integers, FiniteSets, Sequences, TLC

\* Number of DMA channels of the modelled device.
NumChannels == 4

\* Number of channels whose reset_flags() calls run in concurrently
\* scheduled contexts (SpecConc).
NumContexts == 2

Channels == 0 .. (NumChannels - 1)

ConcChannels == 0 .. (NumContexts - 1)

\* Highest channel index whose flag is compared with the others.
MaxFlagIndex == 29

Pow2(n) == 2 ^ n

\* Slip: the flags as the doc comment of Instance::FLAG lists them
\* ("0x1 for channel 0, 0x2 for channel 2, 0x4 for channel 3").
FLAG_doc(c) == IF c = 0 THEN 1 ELSE Pow2(c - 1)

\* Instance::FLAG of the channel with Instance::INDEX = c.
FLAG(c) == Pow2(c)

\* The bits of all existing channels.
ChanMask == Pow2(NumChannels) - 1

(***************************************************************************)
(* Bit arithmetic on register words.                                       *)
(***************************************************************************)
BitOf(x, k) == (x \div Pow2(k)) % 2

\* x with bit k cleared: all the bits of x other than bit k.
OtherBits(x, k) == x - BitOf(x, k) * Pow2(k)

RECURSIVE BitAnd(_, _)
BitAnd(a, b) ==
    IF a = 0 \/ b = 0 THEN 0
    ELSE (a % 2) * (b % 2) + 2 * BitAnd(a \div 2, b \div 2)

RECURSIVE BitOr(_, _)
BitOr(a, b) ==
    IF a = 0 THEN b
    ELSE IF b = 0 THEN a
    ELSE (IF a % 2 = 1 \/ b % 2 = 1 THEN 1 ELSE 0) + 2 * BitOr(a \div 2, b \div 2)

RECURSIVE BitAndNot(_, _)
BitAndNot(a, b) ==
    IF a = 0 THEN 0
    ELSE IF b = 0 THEN a
    ELSE (IF a % 2 = 1 /\ b % 2 = 0 THEN 1 ELSE 0) + 2 * BitAndNot(a \div 2, b \div 2)

\* reg.write(|w| w.bits(v)) on a register whose 1 bits set (ENABLESET0,
\* INTENSET0, SETTRIG0): bits written as 0 are left alone.
WriteOneToSet(reg, v) == BitOr(reg, v)

\* reg.write(|w| w.bits(v)) on a register whose 1 bits clear (INTENCLR0,
\* ERRINT0, INTA0, INTB0): bits written as 0 are left alone.
WriteOneToClear(reg, v) == BitAndNot(reg, v)

(***************************************************************************)
(* State.                                                                  *)
(***************************************************************************)
VARIABLES
    state,        \* state[c]: the _state tag of channel c's handle
    enableset0,   \* ENABLESET0
    intenset0,    \* the interrupt enables, read as INTENSET0
    settrig0,     \* SETTRIG0
    active0,      \* ACTIVE0
    busy0,        \* BUSY0
    errint0,      \* ERRINT0
    inta0,        \* INTA0
    intb0,        \* INTB0
    pc,           \* pc[c]: position of channel c's context inside reset_flags
    last,         \* the most recent call or hardware event, with its result
    lastInt,      \* lastInt[c]: the most recent interrupt-management call on c
    handles,      \* the live Channel values, each with its fields
    own,          \* own[c]: c's bit of each written register, as c's own
                  \* calls alone leave it
    ctimer,       \* the CTIMER value and the CTIMER0 peripheral behind it
    clk           \* the outcome of the most recent i2c Clock::new

vars == <<state, enableset0, intenset0, settrig0, active0, busy0,
          errint0, inta0, intb0, pc, last, lastInt, handles, own, ctimer, clk>>

regs == <<enableset0, intenset0, settrig0, active0, busy0, errint0, inta0, intb0>>

Call(op, c, r) == [op |-> op, ch |-> c, ret |-> r]

\* Channel c's bit of each register that software writes.
OwnBits ==
    [c \in Channels |->
        [enableset |-> BitOf(enableset0, c),
         intenset |-> BitOf(intenset0, c),
         settrig |-> BitOf(settrig0, c),
         errint |-> BitOf(errint0, c),
         inta |-> BitOf(inta0, c),
         intb |-> BitOf(intb0, c)]]

\* One Channel<C, Disabled> per channel, each with its own descriptor and
\* register proxies; CTIMER::new over a peripheral in its reset state; no
\* Clock built yet.
InitRest ==
    /\ handles = {[ty |-> c, _state |-> "Disabled", descriptor |-> c,
                   cfg |-> c, xfercfg |-> c] : c \in Channels}
    /\ own = OwnBits
    /\ ctimer = [_state |-> "Disabled", clock |-> FALSE, pr |-> 0, mr3 |-> 0,
                 mcr |-> {}, pwmc |-> {}, tcr |-> {},
                 pc |-> "idle", period |-> 0, prescaler |-> 0, written |-> <<>>]
    /\ clk = [result |-> "none", divval |-> 0, mstsclhigh |-> 0, mstscllow |-> 0,
              args |-> <<0, 0, 0>>]

\* Every register holds bg; every handle is as handed out (Disabled).
InitWith(bg) ==
    /\ state = [c \in Channels |-> "Disabled"]
    /\ enableset0 = bg
    /\ intenset0 = bg
    /\ settrig0 = bg
    /\ active0 = bg
    /\ busy0 = bg
    /\ errint0 = bg
    /\ inta0 = bg
    /\ intb0 = bg
    /\ pc = [c \in Channels |-> "idle"]
    /\ last = Call("none", 0, FALSE)
    /\ lastInt = [c \in Channels |-> "none"]
    /\ InitRest

\* The device after reset.
Init == InitWith(0)

(***************************************************************************)
(* SharedRegisters<C>: one definition per method; c is C::INDEX.           *)
(***************************************************************************)
SharedRegisters_enable_interrupts(c) ==
    intenset0' = WriteOneToSet(intenset0, FLAG(c))

\* Slip: the clear goes to INTENSET0 instead of INTENCLR0.
SharedRegisters_disable_interrupts_set(c) ==
    intenset0' = WriteOneToSet(intenset0, FLAG(c))

\* Slip: the complement of C::FLAG written instead of C::FLAG.
SharedRegisters_disable_interrupts_inverted(c) ==
    intenset0' = WriteOneToClear(intenset0, ChanMask - FLAG(c))

SharedRegisters_disable_interrupts(c) ==
    intenset0' = WriteOneToClear(intenset0, FLAG(c))

SharedRegisters_enable(c) ==
    enableset0' = WriteOneToSet(enableset0, FLAG(c))

\* Slip: C::INDEX written instead of C::FLAG.
SharedRegisters_trigger_index(c) ==
    settrig0' = WriteOneToSet(settrig0, c)

SharedRegisters_trigger(c) ==
    settrig0' = WriteOneToSet(settrig0, FLAG(c))

is_active(c) == BitAnd(active0, FLAG(c)) # 0

\* Slip: the register is not masked with C::FLAG.
is_busy_unmasked(c) == busy0 # 0

is_busy(c) == BitAnd(busy0, FLAG(c)) # 0

error_interrupt_fired(c) == BitAnd(errint0, FLAG(c)) # 0

a_interrupt_fired(c) == BitAnd(inta0, FLAG(c)) # 0

b_interrupt_fired(c) == BitAnd(intb0, FLAG(c)) # 0

\* The three writes of reset_flags, in program order.
reset_flags_errint(c) ==
    errint0' = WriteOneToClear(errint0, FLAG(c))

reset_flags_inta(c) ==
    inta0' = WriteOneToClear(inta0, FLAG(c))

\* Slip: every bit written as 1 instead of C::FLAG.
reset_flags_intb_all(c) ==
    intb0' = WriteOneToClear(intb0, ChanMask)

reset_flags_intb(c) ==
    intb0' = WriteOneToClear(intb0, FLAG(c))

\* reset_flags run to completion with nothing in between.
SharedRegisters_reset_flags(c) ==
    /\ reset_flags_errint(c)
    /\ reset_flags_inta(c)
    /\ reset_flags_intb(c)

(***************************************************************************)
(* Channel<C, S>.                                                          *)
(***************************************************************************)
\* Slip: enable offered in every state.
Channel_enable_anystate(c) ==
    /\ state' = [state EXCEPT ![c] = "Enabled"]
    /\ last' = Call("Channel::enable", c, FALSE)
    /\ UNCHANGED <<regs, pc, lastInt>>
    /\ \E self \in handles :
          /\ self.ty = c
          /\ handles' = (handles \ {self}) \cup
                {[ty |-> self.ty, _state |-> "Enabled",
                  descriptor |-> self.descriptor,
                  cfg |-> self.cfg, xfercfg |-> self.xfercfg]}
    /\ UNCHANGED <<ctimer, clk>>

\* Slip: the transition also writes the channel's bit to ENABLESET0.
Channel_enable_hw(c) ==
    /\ state[c] = "Disabled"
    /\ state' = [state EXCEPT ![c] = "Enabled"]
    /\ SharedRegisters_enable(c)
    /\ last' = Call("Channel::enable", c, FALSE)
    /\ UNCHANGED <<intenset0, settrig0, active0, busy0,
                   errint0, inta0, intb0, pc, lastInt>>
    /\ \E self \in handles :
          /\ self.ty = c
          /\ self._state = "Disabled"
          /\ handles' = (handles \ {self}) \cup
                {[ty |-> self.ty, _state |-> "Enabled",
                  descriptor |-> self.descriptor,
                  cfg |-> self.cfg, xfercfg |-> self.xfercfg]}
    /\ UNCHANGED <<ctimer, clk>>

\* Channel<C, Disabled>::enable
Channel_enable(c) ==
    /\ state[c] = "Disabled"
    /\ state' = [state EXCEPT ![c] = "Enabled"]
    /\ last' = Call("Channel::enable", c, FALSE)
    /\ UNCHANGED <<regs, pc, lastInt>>
    /\ \E self \in handles :
          /\ self.ty = c
          /\ self._state = "Disabled"
          /\ handles' = (handles \ {self}) \cup
                {[ty |-> self.ty, _state |-> "Enabled",
                  descriptor |-> self.descriptor,
                  cfg |-> self.cfg, xfercfg |-> self.xfercfg]}
    /\ UNCHANGED <<ctimer, clk>>

\* Slip: disable that also switches the channel's interrupt off.
Channel_disable_clears(c) ==
    /\ state[c] = "Enabled"
    /\ state' = [state EXCEPT ![c] = "Disabled"]
    /\ SharedRegisters_disable_interrupts(c)
    /\ last' = Call("Channel::disable", c, FALSE)
    /\ UNCHANGED <<enableset0, settrig0, active0, busy0,
                   errint0, inta0, intb0, pc, lastInt>>
    /\ \E self \in handles :
          /\ self.ty = c
          /\ self._state = "Enabled"
          /\ handles' = (handles \ {self}) \cup
                {[ty |-> self.ty, _state |-> "Disabled",
                  descriptor |-> self.descriptor,
                  cfg |-> self.cfg, xfercfg |-> self.xfercfg]}
    /\ UNCHANGED <<ctimer, clk>>

\* Slip: disable(&self) that builds the new handle from copies and leaves
\* the old handle alive.
Channel_disable_copies(c) ==
    /\ state[c] = "Enabled"
    /\ state' = [state EXCEPT ![c] = "Disabled"]
    /\ last' = Call("Channel::disable", c, FALSE)
    /\ UNCHANGED <<regs, pc, lastInt>>
    /\ \E self \in handles :
          /\ self.ty = c
          /\ self._state = "Enabled"
          /\ handles' = handles \cup
                {[ty |-> self.ty, _state |-> "Disabled",
                  descriptor |-> self.descriptor,
                  cfg |-> self.cfg, xfercfg |-> self.xfercfg]}
    /\ UNCHANGED <<ctimer, clk>>

\* Channel<C, Enabled>::disable
Channel_disable(c) ==
    /\ state[c] = "Enabled"
    /\ state' = [state EXCEPT ![c] = "Disabled"]
    /\ last' = Call("Channel::disable", c, FALSE)
    /\ UNCHANGED <<regs, pc, lastInt>>
    /\ \E self \in handles :
          /\ self.ty = c
          /\ self._state = "Enabled"
          /\ handles' = (handles \ {self}) \cup
                {[ty |-> self.ty, _state |-> "Disabled",
                  descriptor |-> self.descriptor,
                  cfg |-> self.cfg, xfercfg |-> self.xfercfg]}
    /\ UNCHANGED <<ctimer, clk>>

\* Slip: enable_interrupts offered in every state.
Channel_enable_interrupts_anystate(c) ==
    /\ SharedRegisters_enable_interrupts(c)
    /\ last' = Call("enable_interrupts", c, FALSE)
    /\ lastInt' = [lastInt EXCEPT ![c] = "enable"]
    /\ UNCHANGED <<state, enableset0, settrig0, active0, busy0,
                   errint0, inta0, intb0, pc>>
    /\ UNCHANGED <<handles, ctimer, clk>>

\* Channel<C, Enabled>::enable_interrupts
Channel_enable_interrupts(c) ==
    /\ state[c] = "Enabled"
    /\ SharedRegisters_enable_interrupts(c)
    /\ last' = Call("enable_interrupts", c, FALSE)
    /\ lastInt' = [lastInt EXCEPT ![c] = "enable"]
    /\ UNCHANGED <<state, enableset0, settrig0, active0, busy0,
                   errint0, inta0, intb0, pc>>
    /\ UNCHANGED <<handles, ctimer, clk>>

\* Channel<C, Enabled>::disable_interrupts
Channel_disable_interrupts(c) ==
    /\ state[c] = "Enabled"
    /\ SharedRegisters_disable_interrupts(c)
    /\ last' = Call("disable_interrupts", c, FALSE)
    /\ lastInt' = [lastInt EXCEPT ![c] = "disable"]
    /\ UNCHANGED <<state, enableset0, settrig0, active0, busy0,
                   errint0, inta0, intb0, pc>>
    /\ UNCHANGED <<handles, ctimer, clk>>

(***************************************************************************)
(* Calls on a SharedRegisters<C> obtained from SharedRegisters::new().     *)
(***************************************************************************)
Enable(c) ==
    /\ SharedRegisters_enable(c)
    /\ last' = Call("SharedRegisters::enable", c, FALSE)
    /\ UNCHANGED <<state, intenset0, settrig0, active0, busy0,
                   errint0, inta0, intb0, pc, lastInt>>
    /\ UNCHANGED <<handles, ctimer, clk>>

\* SharedRegisters::new().enable_interrupts(), without a handle
EnableInterrupts(c) ==
    /\ SharedRegisters_enable_interrupts(c)
    /\ last' = Call("SharedRegisters::enable_interrupts", c, FALSE)
    /\ UNCHANGED <<state, enableset0, settrig0, active0, busy0,
                   errint0, inta0, intb0, pc, lastInt>>
    /\ UNCHANGED <<handles, ctimer, clk>>

\* SharedRegisters::new().disable_interrupts(), without a handle
DisableInterrupts(c) ==
    /\ SharedRegisters_disable_interrupts(c)
    /\ last' = Call("SharedRegisters::disable_interrupts", c, FALSE)
    /\ UNCHANGED <<state, enableset0, settrig0, active0, busy0,
                   errint0, inta0, intb0, pc, lastInt>>
    /\ UNCHANGED <<handles, ctimer, clk>>

\* Variant: trigger offered only while the handle is Enabled.
Trigger_enabled_only(c) ==
    /\ state[c] = "Enabled"
    /\ SharedRegisters_trigger(c)
    /\ last' = Call("trigger", c, FALSE)
    /\ UNCHANGED <<state, enableset0, intenset0, active0, busy0,
                   errint0, inta0, intb0, pc, lastInt>>
    /\ UNCHANGED <<handles, ctimer, clk>>

Trigger(c) ==
    /\ SharedRegisters_trigger(c)
    /\ last' = Call("trigger", c, FALSE)
    /\ UNCHANGED <<state, enableset0, intenset0, active0, busy0,
                   errint0, inta0, intb0, pc, lastInt>>
    /\ UNCHANGED <<handles, ctimer, clk>>

IsActive(c) ==
    /\ last' = Call("is_active", c, is_active(c))
    /\ UNCHANGED <<state, regs, pc, lastInt>>
    /\ UNCHANGED <<handles, ctimer, clk>>

IsBusy(c) ==
    /\ last' = Call("is_busy", c, is_busy(c))
    /\ UNCHANGED <<state, regs, pc, lastInt>>
    /\ UNCHANGED <<handles, ctimer, clk>>

\* Slip: a query that acknowledges the flag it reads.
ErrorInterruptFired_clears(c) ==
    /\ last' = Call("error_interrupt_fired", c, error_interrupt_fired(c))
    /\ errint0' = WriteOneToClear(errint0, FLAG(c))
    /\ UNCHANGED <<state, enableset0, intenset0, settrig0, active0, busy0,
                   inta0, intb0, pc, lastInt>>
    /\ UNCHANGED <<handles, ctimer, clk>>

ErrorInterruptFired(c) ==
    /\ last' = Call("error_interrupt_fired", c, error_interrupt_fired(c))
    /\ UNCHANGED <<state, regs, pc, lastInt>>
    /\ UNCHANGED <<handles, ctimer, clk>>

AInterruptFired(c) ==
    /\ last' = Call("a_interrupt_fired", c, a_interrupt_fired(c))
    /\ UNCHANGED <<state, regs, pc, lastInt>>
    /\ UNCHANGED <<handles, ctimer, clk>>

BInterruptFired(c) ==
    /\ last' = Call("b_interrupt_fired", c, b_interrupt_fired(c))
    /\ UNCHANGED <<state, regs, pc, lastInt>>
    /\ UNCHANGED <<handles, ctimer, clk>>

\* reset_flags as one call, nothing else running meanwhile.
ResetFlags(c) ==
    /\ pc[c] = "idle"
    /\ SharedRegisters_reset_flags(c)
    /\ last' = Call("reset_flags", c, FALSE)
    /\ UNCHANGED <<state, enableset0, intenset0, settrig0, active0, busy0,
                   pc, lastInt>>
    /\ UNCHANGED <<handles, ctimer, clk>>

\* Variant: the first step clears the bit in all three registers at once.
ResetFlags_errint_all(c) ==
    /\ pc[c] = "idle"
    /\ SharedRegisters_reset_flags(c)
    /\ pc' = [pc EXCEPT ![c] = "errint_written"]
    /\ last' = Call("reset_flags:errint", c, FALSE)
    /\ UNCHANGED <<state, enableset0, intenset0, settrig0, active0, busy0,
                   lastInt>>
    /\ UNCHANGED <<handles, ctimer, clk>>

\* reset_flags one register write at a time: self.errint0.write(..)
ResetFlags_errint(c) ==
    /\ pc[c] = "idle"
    /\ reset_flags_errint(c)
    /\ pc' = [pc EXCEPT ![c] = "errint_written"]
    /\ last' = Call("reset_flags:errint", c, FALSE)
    /\ UNCHANGED <<state, enableset0, intenset0, settrig0, active0, busy0,
                   inta0, intb0, lastInt>>
    /\ UNCHANGED <<handles, ctimer, clk>>

\* self.inta0.write(..)
ResetFlags_inta(c) ==
    /\ pc[c] = "errint_written"
    /\ reset_flags_inta(c)
    /\ pc' = [pc EXCEPT ![c] = "inta_written"]
    /\ last' = Call("reset_flags:inta", c, FALSE)
    /\ UNCHANGED <<state, enableset0, intenset0, settrig0, active0, busy0,
                   errint0, intb0, lastInt>>
    /\ UNCHANGED <<handles, ctimer, clk>>

\* self.intb0.write(..), and the call returns
ResetFlags_intb(c) ==
    /\ pc[c] = "inta_written"
    /\ reset_flags_intb(c)
    /\ pc' = [pc EXCEPT ![c] = "idle"]
    /\ last' = Call("reset_flags", c, FALSE)
    /\ UNCHANGED <<state, enableset0, intenset0, settrig0, active0, busy0,
                   errint0, inta0, lastInt>>
    /\ UNCHANGED <<handles, ctimer, clk>>

(***************************************************************************)
(* The DMA engine.                                                         *)
(***************************************************************************)
\* The engine latches the error, A or B interrupt flag of channel c.
HwLatch(r, c) ==
    /\ r \in {"err", "a", "b"}
    /\ errint0' = IF r = "err" THEN BitOr(errint0, FLAG(c)) ELSE errint0
    /\ inta0' = IF r = "a" THEN BitOr(inta0, FLAG(c)) ELSE inta0
    /\ intb0' = IF r = "b" THEN BitOr(intb0, FLAG(c)) ELSE intb0
    /\ last' = Call("hardware", c, FALSE)
    /\ UNCHANGED <<state, enableset0, intenset0, settrig0, active0, busy0,
                   pc, lastInt>>
    /\ UNCHANGED <<handles, ctimer, clk>>

\* Channel c becomes active or inactive.
HwActive(c) ==
    /\ active0' = IF BitOf(active0, c) = 1 THEN active0 - FLAG(c)
                                           ELSE active0 + FLAG(c)
    /\ last' = Call("hardware", c, FALSE)
    /\ UNCHANGED <<state, enableset0, intenset0, settrig0, busy0,
                   errint0, inta0, intb0, pc, lastInt>>
    /\ UNCHANGED <<handles, ctimer, clk>>

\* Channel c becomes busy or idle.
HwBusy(c) ==
    /\ busy0' = IF BitOf(busy0, c) = 1 THEN busy0 - FLAG(c)
                                       ELSE busy0 + FLAG(c)
    /\ last' = Call("hardware", c, FALSE)
    /\ UNCHANGED <<state, enableset0, intenset0, settrig0, active0,
                   errint0, inta0, intb0, pc, lastInt>>
    /\ UNCHANGED <<handles, ctimer, clk>>

(***************************************************************************)
(* Spec: the handle lifecycle and interrupt management.                    *)
(***************************************************************************)
Next ==
    /\ \E c \in Channels :
           \/ Channel_enable(c)
           \/ Channel_disable(c)
           \/ Channel_enable_interrupts(c)
           \/ Channel_disable_interrupts(c)
    /\ UNCHANGED own

Spec == Init /\ [][Next]_vars

(***************************************************************************)
(* SpecEnable: the handle lifecycle and the accessor's enable(), from a    *)
(* bank whose registers are all clear or have every channel bit set.       *)
(***************************************************************************)
InitBank == \E bg \in {0, ChanMask} : InitWith(bg)

NextEnable ==
    /\ \E c \in Channels :
           \/ Channel_enable(c)
           \/ Channel_disable(c)
           \/ Enable(c)
    /\ UNCHANGED own

SpecEnable == InitBank /\ [][NextEnable]_vars

(***************************************************************************)
(* SpecAccessor: the handle lifecycle, trigger() and the status queries.   *)
(***************************************************************************)
NextAccessor ==
    /\ \E c \in Channels :
           \/ Channel_enable(c)
           \/ Channel_disable(c)
           \/ Trigger(c)
           \/ IsActive(c)
           \/ IsBusy(c)
           \/ ErrorInterruptFired(c)
           \/ AInterruptFired(c)
           \/ BInterruptFired(c)
    /\ UNCHANGED own

SpecAccessor == InitBank /\ [][NextAccessor]_vars

(***************************************************************************)
(* SpecStatus: the engine drives ACTIVE0 and BUSY0, software queries them. *)
(***************************************************************************)
\* A register bit above every channel's bit.
HighBit == Pow2(30)

\* ACTIVE0 and BUSY0 as found: clear, or with a bit set that is no
\* channel's.
InitStatus ==
    \E a, b \in {0, HighBit} :
        /\ state = [c \in Channels |-> "Disabled"]
        /\ enableset0 = 0
        /\ intenset0 = 0
        /\ settrig0 = 0
        /\ active0 = a
        /\ busy0 = b
        /\ errint0 = 0
        /\ inta0 = 0
        /\ intb0 = 0
        /\ pc = [c \in Channels |-> "idle"]
        /\ last = Call("none", 0, FALSE)
        /\ lastInt = [c \in Channels |-> "none"]
        /\ InitRest

NextStatus ==
    /\ \E c \in Channels :
           \/ HwActive(c)
           \/ HwBusy(c)
           \/ IsActive(c)
           \/ IsBusy(c)
    /\ UNCHANGED own

SpecStatus == InitStatus /\ [][NextStatus]_vars

(***************************************************************************)
(* SpecFlags: the engine latches interrupt flags; software clears them     *)
(* with reset_flags(), one call at a time.                                 *)
(***************************************************************************)
NextFlags ==
    /\ \E c \in Channels :
           \/ \E r \in {"err", "a", "b"} : HwLatch(r, c)
           \/ ResetFlags(c)
    /\ UNCHANGED own

SpecFlags == Init /\ [][NextFlags]_vars

(***************************************************************************)
(* SpecConc: as SpecFlags, but every register write of reset_flags() is a  *)
(* step of its own, and the engine and the queries of other contexts run   *)
(* between the steps.                                                      *)
(***************************************************************************)
NextConc ==
    /\ \E c \in ConcChannels :
           \/ \E r \in {"err", "a", "b"} : HwLatch(r, c)
           \/ ResetFlags_errint(c)
           \/ ResetFlags_inta(c)
           \/ ResetFlags_intb(c)
           \/ ErrorInterruptFired(c)
           \/ AInterruptFired(c)
           \/ BInterruptFired(c)
    /\ UNCHANGED own

SpecConc == Init /\ [][NextConc]_vars

(***************************************************************************)
(* SpecQuery: the five status queries, with the engine changing the status *)
(* and interrupt flags between them.                                       *)
(***************************************************************************)
QueryOps ==
    {"is_active", "is_busy", "error_interrupt_fired",
     "a_interrupt_fired", "b_interrupt_fired"}

NextQuery ==
    /\ \E c \in ConcChannels :
           \/ \E r \in {"err", "a", "b"} : HwLatch(r, c)
           \/ HwActive(c)
           \/ HwBusy(c)
           \/ IsActive(c)
           \/ IsBusy(c)
           \/ ErrorInterruptFired(c)
           \/ AInterruptFired(c)
           \/ BInterruptFired(c)
    /\ UNCHANGED own

SpecQuery == Init /\ [][NextQuery]_vars

(***************************************************************************)
(* SpecPersist: handle transitions, interrupt management on the handle and *)
(* the accessor's enable(), for the first NumContexts channels.            *)
(***************************************************************************)
NextPersist ==
    /\ \E c \in ConcChannels :
           \/ Channel_enable(c)
           \/ Channel_disable(c)
           \/ Channel_enable_interrupts(c)
           \/ Channel_disable_interrupts(c)
           \/ Enable(c)
    /\ UNCHANGED own

SpecPersist == Init /\ [][NextPersist]_vars

(***************************************************************************)
(* SpecInterleave: one context per channel, each issuing accessor calls    *)
(* for its own channel one after another; the contexts interleave at every *)
(* register write.  The interrupt flags of these channels start latched.   *)
(***************************************************************************)
ConcMask == Pow2(NumContexts) - 1

InitInterleave ==
    /\ state = [c \in Channels |-> "Disabled"]
    /\ enableset0 = 0
    /\ intenset0 = 0
    /\ settrig0 = 0
    /\ active0 = 0
    /\ busy0 = 0
    /\ errint0 = ConcMask
    /\ inta0 = ConcMask
    /\ intb0 = ConcMask
    /\ pc = [c \in Channels |-> "idle"]
    /\ last = Call("none", 0, FALSE)
    /\ lastInt = [c \in Channels |-> "none"]
    /\ InitRest

\* own after call l, had only l.ch's own calls run: a write of the
\* channel's flag to a set register leaves its bit 1, to a clear register 0.
OwnAfter(l) ==
    [own EXCEPT ![l.ch] =
        CASE l.op = "SharedRegisters::enable" -> [@ EXCEPT !.enableset = 1]
          [] l.op = "trigger" -> [@ EXCEPT !.settrig = 1]
          [] l.op = "SharedRegisters::enable_interrupts" -> [@ EXCEPT !.intenset = 1]
          [] l.op = "SharedRegisters::disable_interrupts" -> [@ EXCEPT !.intenset = 0]
          [] l.op = "reset_flags:errint" -> [@ EXCEPT !.errint = 0]
          [] l.op = "reset_flags:inta" -> [@ EXCEPT !.inta = 0]
          [] l.op = "reset_flags" -> [@ EXCEPT !.intb = 0]
          [] OTHER -> @]

NextInterleave ==
    /\ \E c \in ConcChannels :
           \/ pc[c] = "idle" /\ Enable(c)
           \/ pc[c] = "idle" /\ Trigger(c)
           \/ pc[c] = "idle" /\ EnableInterrupts(c)
           \/ pc[c] = "idle" /\ DisableInterrupts(c)
           \/ ResetFlags_errint(c)
           \/ ResetFlags_inta(c)
           \/ ResetFlags_intb(c)
    /\ own' = OwnAfter(last')

SpecInterleave == InitInterleave /\ [][NextInterleave]_vars

(***************************************************************************)
(* SpecClock: i2c::Clock::new (src/i2c/clock.rs).  clk records the         *)
(* arguments and outcome of the last call: "ok" with the fields of the     *)
(* Clock built, or "panic" when an assertion failed and no Clock exists.   *)
(***************************************************************************)
\* Largest small value passed for mstsclhigh / mstscllow.
MaxArg == 11

\* Number of values of a u8.
U8Modulus == 256

\* Values passed for the u8 arguments: around the accepted range, and u8::MAX.
U8Args == (0 .. MaxArg) \cup {U8Modulus - 1}

\* Values passed for divval: u16.
DivvalArgs == {0, 1, 65535}

\* a - b on u8, as the machine subtracts
U8Sub(a, b) == (a - b) % U8Modulus

\* Slip: the lower bound of the assertion off by one.
Clock_new_assert_loose(v) == v > 0 /\ v < 10

\* assert!(mstsclhigh > 1 && mstsclhigh < 10)
Clock_new_assert(v) == v > 1 /\ v < 10

Clock_new(divval, mstsclhigh, mstscllow) ==
    /\ clk' =
          IF Clock_new_assert(mstsclhigh) /\ Clock_new_assert(mstscllow)
          THEN [result |-> "ok",
                divval |-> divval,
                mstsclhigh |-> U8Sub(mstsclhigh, 2),
                mstscllow |-> U8Sub(mstscllow, 2),
                args |-> <<divval, mstsclhigh, mstscllow>>]
          ELSE [result |-> "panic", divval |-> 0, mstsclhigh |-> 0,
                mstscllow |-> 0,
                args |-> <<divval, mstsclhigh, mstscllow>>]
    /\ UNCHANGED <<state, regs, pc, last, lastInt, handles, own, ctimer>>

NextClock ==
    \E divval \in DivvalArgs, mstsclhigh \in U8Args, mstscllow \in U8Args :
        Clock_new(divval, mstsclhigh, mstscllow)

SpecClock == Init /\ [][NextClock]_vars

(***************************************************************************)
(* CTIMER (src/ctimer.rs).  ctimer holds the handle's _state, the bus      *)
(* clock of the peripheral, the registers enable() writes, and for the     *)
(* enable() call in progress or last made: its arguments, its position pc  *)
(* and the list of what it has written so far.  Registers keep their       *)
(* contents while the bus clock is off.                                    *)
(***************************************************************************)
MaxPeriod == 8

MaxPrescaler == 7

Periods == 1 .. MaxPeriod

Prescalers == 0 .. MaxPrescaler

\* syscon.enable_clock(&self.inner)
enable_clock(t) ==
    [t EXCEPT !.clock = TRUE, !.written = Append(@, "clock")]

\* syscon.disable_clock(&self.inner)
disable_clock(t) == [t EXCEPT !.clock = FALSE]

\* self.inner.pr.write(|w| w.prval().bits(prescaler))
write_pr(t, prescaler) ==
    [t EXCEPT !.pr = prescaler, !.written = Append(@, "pr")]

\* self.inner.mr[3].write(|w| w.match_().bits(period))
write_mr3(t, period) ==
    [t EXCEPT !.mr3 = period, !.written = Append(@, "mr3")]

MCR_enable == {"mr3r", "mr0rl", "mr1rl", "mr2rl"}

write_mcr(t) ==
    [t EXCEPT !.mcr = MCR_enable, !.written = Append(@, "mcr")]

PWMC_enable == {"pwmen0", "pwmen1", "pwmen2"}

write_pwmc(t) ==
    [t EXCEPT !.pwmc = PWMC_enable, !.written = Append(@, "pwmc")]

\* self.inner.tcr.write(|w| w.cen().set_bit())
write_tcr(t) ==
    [t EXCEPT !.tcr = {"cen"}, !.written = Append(@, "tcr")]

\* The arguments of a new enable() call, nothing written yet.
enter_enable(t, period, prescaler) ==
    [t EXCEPT !.period = period, !.prescaler = prescaler, !.written = <<>>]

dmaVars == <<state, regs, pc, last, lastInt, handles, own>>

\* CTIMER<Disabled, ..>::enable
CTIMER_enable(period, prescaler) ==
    /\ ctimer._state = "Disabled"
    /\ ctimer.pc = "idle"
    /\ ctimer' =
          [write_tcr(write_pwmc(write_mcr(write_mr3(write_pr(
              enable_clock(enter_enable(ctimer, period, prescaler)),
              prescaler), period))))
           EXCEPT !._state = "Enabled"]
    /\ UNCHANGED <<dmaVars, clk>>

\* Slip: disable that leaves the bus clock on.
CTIMER_disable_clock_on ==
    /\ ctimer._state = "Enabled"
    /\ ctimer.pc = "idle"
    /\ ctimer' = [ctimer EXCEPT !._state = "Disabled"]
    /\ UNCHANGED <<dmaVars, clk>>

\* CTIMER<Enabled, ..>::disable
CTIMER_disable ==
    /\ ctimer._state = "Enabled"
    /\ ctimer.pc = "idle"
    /\ ctimer' = [disable_clock(ctimer) EXCEPT !._state = "Disabled"]
    /\ UNCHANGED <<dmaVars, clk>>

NextCtimer ==
    \/ \E period \in Periods, prescaler \in Prescalers :
          CTIMER_enable(period, prescaler)
    \/ CTIMER_disable

SpecCtimer == Init /\ [][NextCtimer]_vars

(***************************************************************************)
(* SpecCtimerSteps: enable() one write at a time.  The handle was moved    *)
(* into the call, which keeps _state Disabled until the Enabled handle is  *)
(* returned.                                                               *)
(***************************************************************************)
CTIMER_enable_clock(period, prescaler) ==
    /\ ctimer._state = "Disabled"
    /\ ctimer.pc = "idle"
    /\ ctimer' = [enable_clock(enter_enable(ctimer, period, prescaler))
                  EXCEPT !.pc = "clock_enabled"]
    /\ UNCHANGED <<dmaVars, clk>>

CTIMER_enable_pr ==
    /\ ctimer.pc = "clock_enabled"
    /\ ctimer' = [write_pr(ctimer, ctimer.prescaler) EXCEPT !.pc = "pr_written"]
    /\ UNCHANGED <<dmaVars, clk>>

CTIMER_enable_mr3 ==
    /\ ctimer.pc = "pr_written"
    /\ ctimer' = [write_mr3(ctimer, ctimer.period) EXCEPT !.pc = "mr3_written"]
    /\ UNCHANGED <<dmaVars, clk>>

CTIMER_enable_mcr ==
    /\ ctimer.pc = "mr3_written"
    /\ ctimer' = [write_mcr(ctimer) EXCEPT !.pc = "mcr_written"]
    /\ UNCHANGED <<dmaVars, clk>>

CTIMER_enable_pwmc ==
    /\ ctimer.pc = "mcr_written"
    /\ ctimer' = [write_pwmc(ctimer) EXCEPT !.pc = "pwmc_written"]
    /\ UNCHANGED <<dmaVars, clk>>

CTIMER_enable_tcr ==
    /\ ctimer.pc = "pwmc_written"
    /\ ctimer' = [write_tcr(ctimer) EXCEPT !.pc = "idle", !._state = "Enabled"]
    /\ UNCHANGED <<dmaVars, clk>>

NextCtimerSteps ==
    \/ \E period \in Periods, prescaler \in Prescalers :
          CTIMER_enable_clock(period, prescaler)
    \/ CTIMER_enable_pr
    \/ CTIMER_enable_mr3
    \/ CTIMER_enable_mcr
    \/ CTIMER_enable_pwmc
    \/ CTIMER_enable_tcr
    \/ CTIMER_disable

SpecCtimerSteps == Init /\ [][NextCtimerSteps]_vars

\* The counter counts: the peripheral is clocked and TCR.CEN is set.
Running == ctimer.clock /\ "cen" \in ctimer.tcr

\* The order in which enable() writes.
EnableOrder == <<"clock", "pr", "mr3", "mcr", "pwmc", "tcr">>

(***************************************************************************)
(* Properties.                                                             *)
(***************************************************************************)
InterruptOps == {"enable_interrupts", "disable_interrupts"}

AccessorOps == {"trigger", "is_active", "is_busy", "error_interrupt_fired",
                "a_interrupt_fired", "b_interrupt_fired"}

\* C1: every enable_interrupts / disable_interrupts call is made on a
\* handle that is in the Enabled state; none is made on a Disabled handle.
C1_InterruptCallsOnlyOnEnabled ==
    last.op \in InterruptOps => state[last.ch] = "Enabled"

\* An interrupt has just been enabled through an Enabled handle while
\* another handle is Disabled.
C1_Witness ==
    /\ last.op = "enable_interrupts"
    /\ state[last.ch] = "Enabled"
    /\ BitOf(intenset0, last.ch) = 1
    /\ \E c \in Channels : state[c] = "Disabled"

\* C2 as stated: trigger() and the status queries for channel c are never
\* performed while c's handle is Disabled.
C2_AccessorCallsOnlyOnEnabled ==
    last.op \in AccessorOps => state[last.ch] = "Enabled"

\* C2 amended: trigger() and the status queries are methods of
\* SharedRegisters<C>, which new() builds without a handle: they can be
\* performed in every state of c's handle, Disabled included, and leave the
\* handle's state as it is.
C2_AccessorCallsInEveryState ==
    /\ [](\A c \in Channels :
            /\ ENABLED Trigger(c)
            /\ ENABLED IsActive(c)
            /\ ENABLED IsBusy(c)
            /\ ENABLED ErrorInterruptFired(c)
            /\ ENABLED AInterruptFired(c)
            /\ ENABLED BInterruptFired(c))
    /\ [][last'.op \in AccessorOps => state' = state]_vars

\* trigger() has just set the trigger bit of a channel whose handle is
\* Disabled.
C2_Witness ==
    /\ last.op = "trigger"
    /\ state[last.ch] = "Disabled"
    /\ BitOf(settrig0, last.ch) = 1

\* C3: a handle starts Disabled and is always Disabled or Enabled; enable
\* is possible exactly from Disabled and yields Enabled, disable exactly
\* from Enabled and yields Disabled; in every state exactly one of the two
\* is possible, so there is no terminal state.
C3_Lifecycle ==
    /\ \A c \in Channels : state[c] = "Disabled"
    /\ [](\A c \in Channels :
            /\ state[c] \in {"Disabled", "Enabled"}
            /\ (ENABLED Channel_enable(c)) <=> state[c] = "Disabled"
            /\ (ENABLED Channel_disable(c)) <=> state[c] = "Enabled"
            /\ (ENABLED Channel_enable(c)) # (ENABLED Channel_disable(c)))
    /\ [][/\ last'.op = "Channel::enable" =>
                /\ state[last'.ch] = "Disabled"
                /\ state' = [state EXCEPT ![last'.ch] = "Enabled"]
          /\ last'.op = "Channel::disable" =>
                /\ state[last'.ch] = "Enabled"
                /\ state' = [state EXCEPT ![last'.ch] = "Disabled"]
          /\ state' # state => last'.op \in {"Channel::enable", "Channel::disable"}
         ]_vars

\* A handle is back in Disabled after having been Enabled (its interrupt
\* was enabled meanwhile), and can be enabled again.
C3_Witness ==
    /\ last.op = "Channel::disable"
    /\ state[last.ch] = "Disabled"
    /\ lastInt[last.ch] = "enable"
    /\ ENABLED Channel_enable(last.ch)

\* C4: Channel::enable writes no register: every shared register holds the
\* same value after the transition as before; only the state tag of that
\* handle changes.
C4_EnableWritesNoRegister ==
    [][last'.op = "Channel::enable" =>
          /\ regs' = regs
          /\ state' = [state EXCEPT ![last'.ch] = "Enabled"]
          /\ UNCHANGED <<pc, lastInt>>]_vars

\* A handle has just been enabled and its ENABLESET0 bit is still clear,
\* while another channel's bit is set.
C4_Witness ==
    /\ last.op = "Channel::enable"
    /\ state[last.ch] = "Enabled"
    /\ BitOf(enableset0, last.ch) = 0
    /\ \E j \in Channels : BitOf(enableset0, j) = 1

\* C5 as stated: whenever channel k's handle is Enabled, bit k of
\* ENABLESET0 has been set.
C5_EnabledHandleHasEnableBit ==
    \A k \in Channels : state[k] = "Enabled" => BitOf(enableset0, k) = 1

\* C5 amended: activating a handle does not perform the hardware-level
\* enable.  Bit k of ENABLESET0 changes only in a call of
\* SharedRegisters::enable() for channel k, which sets it and leaves the
\* handles alone.
C5_EnableBitOnlyByAccessor ==
    [][\A k \in Channels :
          BitOf(enableset0', k) # BitOf(enableset0, k) =>
              /\ last' = Call("SharedRegisters::enable", k, FALSE)
              /\ BitOf(enableset0', k) = 1
              /\ state' = state]_vars

\* One handle is Enabled with its ENABLESET0 bit clear, another is Disabled
\* with its bit set.
C5_Witness ==
    \E k, j \in Channels :
        /\ state[k] = "Enabled"
        /\ BitOf(enableset0, k) = 0
        /\ state[j] = "Disabled"
        /\ BitOf(enableset0, j) = 1

\* C6: starting from an all-clear interrupt-enable register, bit k is set
\* iff the most recent enable_interrupts / disable_interrupts call on
\* channel k was enable_interrupts; each call changes only its own
\* channel's bit; and enable(1), enable(3), disable(1) leaves 0b1000.
C6_InterruptEnableTracksLastCall ==
    /\ [](/\ intenset0 \in 0 .. ChanMask
          /\ \A k \in Channels :
                BitOf(intenset0, k) = 1 <=> lastInt[k] = "enable"
          /\ (/\ lastInt[1] = "disable"
              /\ lastInt[3] = "enable"
              /\ \A k \in Channels \ {1, 3} : lastInt[k] = "none")
                => intenset0 = 8)
    /\ [][last'.op \in InterruptOps =>
            /\ OtherBits(intenset0', last'.ch) = OtherBits(intenset0, last'.ch)
            /\ BitOf(intenset0', last'.ch) =
                  (IF last'.op = "enable_interrupts" THEN 1 ELSE 0)]_vars

\* Interrupts were enabled for channels 1 and 3 and then disabled for
\* channel 1: the register holds 0b1000.
C6_Witness ==
    /\ last = Call("disable_interrupts", 1, FALSE)
    /\ lastInt[1] = "disable"
    /\ lastInt[3] = "enable"
    /\ \A k \in Channels \ {1, 3} : lastInt[k] = "none"
    /\ intenset0 = 8

\* C7: trigger() on channel k sets bit k of SETTRIG0, leaves every other
\* bit of SETTRIG0 as it was, and writes no other register.
C7_TriggerSetsOnlyOwnBit ==
    [][last'.op = "trigger" =>
          /\ BitOf(settrig0', last'.ch) = 1
          /\ OtherBits(settrig0', last'.ch) = OtherBits(settrig0, last'.ch)
          /\ UNCHANGED <<enableset0, intenset0, active0, busy0,
                         errint0, inta0, intb0>>]_vars

\* Channel 2 has just been triggered while channel 0's trigger bit is set
\* and channel 1's is clear.
C7_Witness ==
    /\ last = Call("trigger", 2, FALSE)
    /\ settrig0 = 5

\* C8: is_active() / is_busy() on channel k returns true iff bit k of
\* ACTIVE0 / BUSY0 is set, whatever the other bits are.
C8_StatusReflectsOwnBit ==
    /\ last.op = "is_active" => (last.ret <=> BitOf(active0, last.ch) = 1)
    /\ last.op = "is_busy" => (last.ret <=> BitOf(busy0, last.ch) = 1)

\* With channel 2 busy (bit 2 of BUSY0 set, as is a bit that is no
\* channel's), is_busy() on channel 0 has just returned false.
C8_Witness ==
    /\ busy0 = HighBit + 4
    /\ last = Call("is_busy", 0, FALSE)

\* C9: reset_flags() on channel k clears bit k of ERRINT0, INTA0 and INTB0
\* and leaves every other bit of the three registers as it was; afterwards
\* the three *_interrupt_fired queries are false for k and unchanged for
\* every other channel.
C9_ResetFlagsClearsOnlyOwnBit ==
    [][\A k \in Channels :
          last' = Call("reset_flags", k, FALSE) =>
              /\ errint0' = OtherBits(errint0, k)
              /\ inta0' = OtherBits(inta0, k)
              /\ intb0' = OtherBits(intb0, k)
              /\ ~error_interrupt_fired(k)'
              /\ ~a_interrupt_fired(k)'
              /\ ~b_interrupt_fired(k)'
              /\ \A j \in Channels \ {k} :
                    /\ error_interrupt_fired(j)' = error_interrupt_fired(j)
                    /\ a_interrupt_fired(j)' = a_interrupt_fired(j)
                    /\ b_interrupt_fired(j)' = b_interrupt_fired(j)]_vars

\* reset_flags() has just run for one channel while another channel has
\* all three flags latched.
C9_Witness ==
    /\ last.op = "reset_flags"
    /\ BitOf(errint0, last.ch) + BitOf(inta0, last.ch) + BitOf(intb0, last.ch) = 0
    /\ \E j \in Channels \ {last.ch} :
          BitOf(errint0, j) + BitOf(inta0, j) + BitOf(intb0, j) = 3

\* C10 as stated: reset_flags() is one step; while a call on channel k has
\* written some of the three registers and not yet the others, nothing but
\* that call has run.
C10_ResetFlagsIsOneStep ==
    \A k \in Channels :
        pc[k] # "idle" =>
            /\ last.ch = k
            /\ last.op \in {"reset_flags:errint", "reset_flags:inta"}

\* C10 amended: reset_flags() on channel k writes the channel's bit to
\* ERRINT0, then INTA0, then INTB0, as three separate register writes in
\* that order, each clearing bit k of its own register only; other contexts
\* and the engine can run between the writes.
C10_ResetFlagsThreeWritesInOrder ==
    [][\A k \in Channels :
          /\ (pc[k] = "idle" /\ pc'[k] # "idle") =>
                /\ pc'[k] = "errint_written"
                /\ errint0' = OtherBits(errint0, k)
                /\ UNCHANGED <<inta0, intb0>>
          /\ (pc[k] = "errint_written" /\ pc'[k] # "errint_written") =>
                /\ pc'[k] = "inta_written"
                /\ inta0' = OtherBits(inta0, k)
                /\ UNCHANGED <<errint0, intb0>>
          /\ (pc[k] = "inta_written" /\ pc'[k] # "inta_written") =>
                /\ pc'[k] = "idle"
                /\ intb0' = OtherBits(intb0, k)
                /\ UNCHANGED <<errint0, inta0>>]_vars

\* In the middle of reset_flags() on channel k (ERRINT0 written, INTA0 not
\* yet) a query from another context sees the A flag of k still set.
C10_Witness ==
    \E k \in Channels :
        /\ pc[k] = "errint_written"
        /\ BitOf(errint0, k) = 0
        /\ last = Call("a_interrupt_fired", k, TRUE)

\* C11: with the calls of different channels interleaved at every register
\* write and no locking, each channel's bit of every shared register holds,
\* after every step and so at the end, the value that channel's own calls
\* alone would have left in program order: every interleaving ends in the
\* same registers.  No step touches another channel's bit.
C11_InterleavingKeepsOwnBits ==
    /\ own = OwnBits
    /\ \A r \in {enableset0, intenset0, settrig0, errint0, inta0, intb0} :
          r \in 0 .. ChanMask

\* Channel 0 is between two writes of its reset_flags() while channel 1
\* has enabled, triggered and just disabled its interrupt again.
C11_Witness ==
    /\ pc[0] = "inta_written"
    /\ last = Call("SharedRegisters::disable_interrupts", 1, FALSE)
    /\ BitOf(enableset0, 1) = 1
    /\ BitOf(settrig0, 1) = 1
    /\ BitOf(intb0, 0) = 1
    /\ BitOf(errint0, 0) = 0
    /\ BitOf(errint0, 1) = 1

C13_OneOwnerPerDescriptor ==
    /\ \A d \in Channels :
          /\ Cardinality({h \in handles : h.descriptor = d}) = 1
          /\ Cardinality({h \in handles : h.cfg = d}) = 1
          /\ Cardinality({h \in handles : h.xfercfg = d}) = 1
          /\ Cardinality({h \in handles : h.ty = d}) = 1
    /\ \A h \in handles :
          /\ h.descriptor = h.ty
          /\ h.cfg = h.ty
          /\ h.xfercfg = h.ty
          /\ h._state = state[h.ty]

\* Channel 1 went Disabled -> Enabled -> Disabled while channel 2 stays
\* Enabled: the Disabled handle of channel 1 holds descriptor 1 again.
C13_Witness ==
    /\ last = Call("Channel::disable", 1, FALSE)
    /\ lastInt[1] = "enable"
    /\ [ty |-> 1, _state |-> "Disabled", descriptor |-> 1,
        cfg |-> 1, xfercfg |-> 1] \in handles
    /\ [ty |-> 2, _state |-> "Enabled", descriptor |-> 2,
        cfg |-> 2, xfercfg |-> 2] \in handles

\* C14: Clock::new builds a Clock exactly when mstsclhigh and mstscllow are
\* both in 2 ..= 9 and panics on an assertion otherwise; the Clock built
\* holds mstsclhigh - 2 and mstscllow - 2, each in 0 ..= 7 with no
\* wrap-around of the u8 subtraction, and divval as passed.
C14_ClockNewAcceptsTwoToNine ==
    clk.result # "none" =>
        /\ clk.result = "ok" <=>
              (clk.args[2] \in 2 .. 9 /\ clk.args[3] \in 2 .. 9)
        /\ clk.result \in {"ok", "panic"}
        /\ clk.result = "ok" =>
              /\ clk.mstsclhigh = clk.args[2] - 2
              /\ clk.mstscllow = clk.args[3] - 2
              /\ clk.mstsclhigh \in 0 .. 7
              /\ clk.mstscllow \in 0 .. 7
              /\ clk.divval = clk.args[1]

\* Clock::new(65535, 2, 9) built a Clock with fields 65535, 0 and 7.
C14_Witness ==
    /\ clk.result = "ok"
    /\ clk.args = <<65535, 2, 9>>
    /\ clk.mstsclhigh = 0
    /\ clk.mstscllow = 7
    /\ clk.divval = 65535

\* C15: disable is offered exactly when the CTIMER handle is Enabled and
\* enable exactly when it is Disabled; after any sequence of enable and
\* disable calls from a Disabled CTIMER with its clock off, the bus clock
\* of the peripheral is on exactly when the handle is Enabled.
C15_ClockOnIffEnabled ==
    /\ ctimer.clock <=> ctimer._state = "Enabled"
    /\ ENABLED CTIMER_disable <=> ctimer._state = "Enabled"
    /\ (ENABLED (\E period \in Periods, prescaler \in Prescalers :
                    CTIMER_enable(period, prescaler)))
          <=> ctimer._state = "Disabled"

\* The CTIMER was enabled with period 3 and prescaler 2 and disabled
\* again: the handle is Disabled and the clock is off.
C15_Witness ==
    /\ ctimer._state = "Disabled"
    /\ ~ctimer.clock
    /\ ctimer.mr3 = 3
    /\ ctimer.pr = 2
    /\ ctimer.tcr = {"cen"}

\* C16: a status query (is_active, is_busy, error_interrupt_fired,
\* a_interrupt_fired, b_interrupt_fired) changes no shared register and
\* nothing else of the driver's state, and the same query of the same
\* channel made again right after, with no write or hardware event in
\* between, returns the same result.
C16_QueriesHaveNoEffect ==
    [][last'.op \in QueryOps =>
          /\ regs' = regs
          /\ UNCHANGED <<state, pc, lastInt, handles, ctimer, clk>>
          /\ (last.op = last'.op /\ last.ch = last'.ch) => last'.ret = last.ret]_vars

\* error_interrupt_fired of channel 1 returned TRUE while channel 0 is
\* active and busy with its A flag latched; the registers still hold that.
C16_Witness ==
    /\ last = Call("error_interrupt_fired", 1, TRUE)
    /\ errint0 = FLAG(1)
    /\ active0 = FLAG(0)
    /\ busy0 = FLAG(0)
    /\ inta0 = FLAG(0)

\* C17: Channel::disable writes no shared register.  Channel k's bit of
\* the interrupt enables, once set, goes back to 0 only by
\* disable_interrupts on k's Enabled handle, and its ENABLESET0 bit, once
\* set, stays set: both outlive the handle being Disabled and re-enabled.
C17_DisableKeepsEnableBits ==
    [][/\ last'.op = "Channel::disable" => regs' = regs
       /\ \A k \in Channels :
             /\ (BitOf(intenset0, k) = 1 /\ BitOf(intenset0', k) = 0) =>
                   /\ last' = Call("disable_interrupts", k, FALSE)
                   /\ state[k] = "Enabled"
             /\ BitOf(enableset0, k) = 1 => BitOf(enableset0', k) = 1]_vars

\* Channel 0 had its interrupt and its hardware enable switched on and its
\* handle was then disabled: the handle is Disabled, both bits are set.
C17_Witness ==
    /\ last = Call("Channel::disable", 0, FALSE)
    /\ state[0] = "Disabled"
    /\ lastInt[0] = "enable"
    /\ BitOf(intenset0, 0) = 1
    /\ BitOf(enableset0, 0) = 1

\* C18: within CTIMER::enable the clock is switched on first and PR, MR3,
\* MCR, PWMC and TCR are written in this order, TCR.CEN last; and whenever
\* the counter is running, the configuration of the enable() call is
\* completely written: PR and MR3 hold its prescaler and period, MCR and
\* PWMC the bits it sets.
C18_NeverRunningPartiallyConfigured ==
    /\ ctimer.written = SubSeq(EnableOrder, 1, Len(ctimer.written))
    /\ Len(ctimer.written) > 0 => ctimer.clock \/ ctimer.pc = "idle"
    /\ Running =>
          /\ ctimer.pr = ctimer.prescaler
          /\ ctimer.mr3 = ctimer.period
          /\ ctimer.mcr = MCR_enable
          /\ ctimer.pwmc = PWMC_enable

====
